---- MODULE Spec2Model ----
(***************************************************************************)
(* A model of src/src/ProxyPool/__init__.py: the proxy registry            *)
(* (_ProxyDict), the availability queue (_ProxyQueue), the pool's          *)
(* checkout / return / replenish protocol (ProxyPool) and the lease object *)
(* (Proxy).  get_proxy is modelled step by step (one step per              *)
(* synchronisation point), so that the same definitions serve the          *)
(* sequential specifications (one call at a time) and the concurrent ones  *)
(* (free interleaving of the threads' steps).                              *)
(***************************************************************************)
EXTENDS Integers, Sequences, FiniteSets, TLC

\* ---------------------------------------------------------------- bounds
\* The endpoints the model knows: "a" and "b" may be given to the
\* constructor, every one may be added later.
Proxies == {"a", "b", "c"}
InitProxies == {"a", "b"}
Threads == {"t1", "t2"}
\* Length of the constructor's proxy_list.
MaxList == 2
\* Number of API calls in one behaviour of the sequential specification.
MaxOps == 3
\* Number of calls on the pool and its lease objects in one behaviour of the
\* lease specification.
MaxLeaseOps == 3
\* The clock runs from 1 to MaxTime.
MaxTime == 2
\* Number of endpoints one replenish callback adds at most.
MaxAdd == 2
\* Number of get_proxy calls of one thread in the concurrent specifications.
MaxCalls == 1
\* Number of API calls in one behaviour of the removal specification.
MaxRemoveOps == 3
\* Number of use_proxy and return_proxy calls in one behaviour of the
\* specification of the counters.
MaxRaceOps == 4
\* Number of API calls in one behaviour of the specification of the ban.
MaxBanOps == 4

None == "None"
\* time_sec arguments of timeout_proxy.
Secs == {1, 2}

VARIABLES
    max_time_outs,          \* ProxyPool.max_time_outs
    max_uses,               \* ProxyPool.max_uses
    time_out_on_use,        \* ProxyPool.time_out_on_use
    replenish_proxies_func, \* TRUE iff a callback is configured
    proxy_dict,             \* ProxyPool._proxy_dict: url -> ProxyData
    proxy_queue,            \* ProxyPool._proxy_queue: sequence of urls
    replenish_lock,         \* ProxyPool._replenish_lock.locked()
    replenish_condition,    \* owner of the condition's lock, or None
    now,                    \* time.time()
    pc,                     \* position of each thread in its call
    op,                     \* the call: "get", "ctor", "use" (callers of
                            \* get_proxy), "remove", "use_proxy", "return"
    prev_proxy,             \* get_proxy's prev_proxy argument
    replenish,              \* get_proxy's _replenish argument
    proxy_str,              \* get_proxy's local proxy_str; the proxy
                            \* argument of the other calls
    orphan,                 \* get_proxy's local prox_data, once the registry
                            \* holds that object no more
    loaded,                 \* the counter value a thread read for += or -=
    result,                 \* how the call ended
    hstate,                 \* each thread's Proxy object: "none", "live", "dead"
    assigned_proxy,         \* Proxy.assigned_proxy
    proxy_list,             \* the constructor's proxy_list argument
    ops,                    \* API calls the behaviour may still make
    before,                 \* pool state when the call in progress started
    invoked,                \* callback invocations of the call in progress
    popped,                 \* popleft calls of the call in progress
    calls,                  \* callback invocations, per drought
    calls_ok,               \* every finished callback added enough endpoints
    drought,                \* number of droughts ended so far
    seen,                   \* the drought in which the thread saw the queue empty
    returned,               \* urls get_proxy returned, in order
    grown,                  \* an add or a release happened after construction
    ncalls,                 \* get_proxy calls each thread started
    held,                   \* per Proxy object and url: times it began to hold it
    released,               \* per Proxy object and url: times it released it
    snapshots,              \* per queue entry: the timeout it was put with
    completed               \* per url: use_proxy and return_proxy calls done

cfgvars ==
    <<max_time_outs, max_uses, time_out_on_use, replenish_proxies_func>>
poolvars == <<proxy_dict, proxy_queue>>
gatevars == <<replenish_lock, replenish_condition>>
framevars == <<pc, op, prev_proxy, replenish, proxy_str, result>>
handlevars == <<hstate, assigned_proxy>>
callghost == <<before, invoked, popped>>
replghost == <<calls, calls_ok, drought, seen>>
histghost == <<returned, grown, ncalls>>
leaseghost == <<held, released>>
racevars == <<loaded, completed>>
vars == <<cfgvars, poolvars, gatevars, now, framevars, handlevars, proxy_list,
          ops, callghost, replghost, histghost, leaseghost, racevars, orphan,
          snapshots>>

\* ------------------------------------------------------------- ProxyData
ProxyData ==
    [timeout |-> 0, banned |-> FALSE, given_out_counter |-> 0,
     timed_out_counter |-> 0, used_counter |-> 0]

give_timeout(pd, time_sec) ==
    [pd EXCEPT !.timeout = now + time_sec,
               !.timed_out_counter = @ + 1]

use(pd, use_timeout) ==
    LET u == [pd EXCEPT !.used_counter = @ + 1]
    IN  IF use_timeout > 0 THEN give_timeout(u, use_timeout) ELSE u

ban(pd) == [pd EXCEPT !.banned = TRUE]

unban(pd) == [pd EXCEPT !.banned = FALSE]

is_valid(pd, ignore_timeout) ==
    (~pd.banned) /\ (ignore_timeout \/ pd.timeout < now)

\* is_timeout that never reports a cooldown.
is_timeout_never(pd) == FALSE

is_timeout(pd) == pd.timeout > now

\* ----------------------------------------------------------- _ProxyQueue
RECURSIVE RemoveFirst(_, _)
RemoveFirst(q, url) ==
    IF q = <<>> THEN <<>>
    ELSE IF Head(q) = url THEN Tail(q)
    ELSE <<Head(q)>> \o RemoveFirst(Tail(q), url)

Count(q, url) == Cardinality({i \in 1..Len(q) : q[i] = url})

Elems(q) == {q[i] : i \in 1..Len(q)}

NoDup(q) == \A i, j \in 1..Len(q) : q[i] = q[j] => i = j

\* The index of the first occurrence of url in q, 0 when there is none.
IndexOf(q, url) ==
    LET at == {i \in 1..Len(q) : q[i] = url}
    IN  IF at = {} THEN 0 ELSE CHOOSE j \in at : \A k \in at : j <= k

\* s without its k-th element; s itself when k = 0.
RemoveAt(s, k) ==
    IF k = 0 THEN s ELSE SubSeq(s, 1, k - 1) \o SubSeq(s, k + 1, Len(s))

\* s with x inserted as its i-th element; s itself when i = 0.
InsertAt(s, i, x) ==
    IF i = 0 THEN s ELSE SubSeq(s, 1, i - 1) \o <<x>> \o SubSeq(s, i, Len(s))

\* The loop of put (lines 42-50) over the queue r for a proxy with timeout
\* tmo; d is ProxyPoolLink.  The loop stops at the first entry that is not
\* registered (the lookup raises UnknownProxy: 0) or whose timeout is not
\* below tmo (the place to insert at); it appends when it stops nowhere.
put_index(r, d, tmo) ==
    LET at == {i \in 1..Len(r) :
                  r[i] \notin DOMAIN d \/ tmo <= d[r[i]].timeout}
    IN  IF at = {} THEN Len(r) + 1
        ELSE LET i == CHOOSE j \in at : \A k \in at : j <= k
             IN  IF r[i] \in DOMAIN d THEN i ELSE 0

\* put that does not remove the url first.
put_no_remove(q, d, url, tmo) == InsertAt(q, put_index(q, d, tmo), url)

\* put(proxy): proxy.proxy_url = url, proxy.timeout = tmo.  When the loop
\* raises, the url has been removed and is not inserted.
put(q, d, url, tmo) ==
    LET r == RemoveFirst(q, url)
    IN  InsertAt(r, put_index(r, d, tmo), url)

put_raises(q, d, url, tmo) == put_index(RemoveFirst(q, url), d, tmo) = 0

\* Bookkeeping for the claims: the timeouts the entries of put's queue were
\* put with, s being those of q.
put_snap(q, s, d, url, tmo) ==
    InsertAt(RemoveAt(s, IndexOf(q, url)),
             put_index(RemoveFirst(q, url), d, tmo), tmo)

\* ------------------------------------------------------------- ProxyPool
proxy_valid_to_give(pd, ignore_timeout) ==
    /\ (max_time_outs <= 0 \/ pd.timed_out_counter < max_time_outs)
    /\ (max_uses <= 0 \/ pd.used_counter < max_uses)
    /\ is_valid(pd, ignore_timeout)

proxy_valid_to_use(pd) ==
    /\ (max_uses <= 0 \/ pd.used_counter < max_uses)
    /\ (max_time_outs <= 0 \/ pd.timed_out_counter < max_time_outs)
    /\ is_valid(pd, FALSE)

\* add_proxy: a fresh ProxyData replaces the entry, then the queue's put.
add_dict(d, url) ==
    [u \in DOMAIN d \cup {url} |-> IF u = url THEN ProxyData ELSE d[u]]

add_queue(d, q, url) == put(q, add_dict(d, url), url, 0)

add_snap(d, q, s, url) == put_snap(q, s, add_dict(d, url), url, 0)

\* add_proxies
RECURSIVE add_proxies_dict(_, _)
add_proxies_dict(d, list) ==
    IF list = <<>> THEN d
    ELSE add_proxies_dict(add_dict(d, Head(list)), Tail(list))

RECURSIVE add_proxies_queue(_, _, _)
add_proxies_queue(d, q, list) ==
    IF list = <<>> THEN q
    ELSE add_proxies_queue(add_dict(d, Head(list)),
                           add_queue(d, q, Head(list)), Tail(list))

RECURSIVE add_proxies_snap(_, _, _, _)
add_proxies_snap(d, q, s, list) ==
    IF list = <<>> THEN s
    ELSE add_proxies_snap(add_dict(d, Head(list)), add_queue(d, q, Head(list)),
                          add_snap(d, q, s, Head(list)), Tail(list))

\* return_proxy(url) for a registered url.
return_dict(d, url) == [d EXCEPT ![url].given_out_counter = @ - 1]

return_queue(d, q, url) ==
    LET d1 == return_dict(d, url)
    IN  IF proxy_valid_to_give(d1[url], TRUE)
        THEN put(q, d1, url, d1[url].timeout)
        ELSE q

\* return_proxy(url) raises: its put meets an entry that is not registered.
return_raises(d, q, url) ==
    LET d1 == return_dict(d, url)
    IN  /\ proxy_valid_to_give(d1[url], TRUE)
        /\ put_raises(q, d1, url, d1[url].timeout)

return_snap(d, q, s, url) ==
    LET d1 == return_dict(d, url)
    IN  IF proxy_valid_to_give(d1[url], TRUE)
        THEN put_snap(q, s, d1, url, d1[url].timeout)
        ELSE s

Quiet == \A t \in Threads : pc[t] = "idle"

NoResult == [kind |-> "none", url |-> None, at |-> 0]
NoBefore == [set |-> FALSE, queue |-> <<>>, dict |-> <<>>]

\* get_proxy's prox_data is the registry's object of proxy_str.
NotOrphan == [is |-> FALSE, timeout |-> 0]

\* The registry's object of url is replaced or deleted: the calls that hold
\* it as prox_data (between line 132 and the end of get_proxy) keep it.
Orphaned(url) ==
    [t \in Threads |->
        IF /\ pc[t] \in {"reput", "release", "incr"}
           /\ proxy_str[t] = url
           /\ ~orphan[t].is
           /\ url \in DOMAIN proxy_dict
        THEN [is |-> TRUE, timeout |-> proxy_dict[url].timeout]
        ELSE orphan[t]]

\* Sequences without repetition over S, of length at most n.
RECURSIVE Lists(_, _)
Lists(S, n) ==
    IF n = 0 THEN {<<>>}
    ELSE {<<>>} \cup
         UNION {{<<x>> \o l : l \in Lists(S \ {x}, n - 1)} : x \in S}

\* All sequences over S of length at most n (the constructor's proxy_list
\* may repeat an url).
RECURSIVE AnyLists(_, _)
AnyLists(S, n) ==
    IF n = 0 THEN {<<>>}
    ELSE {<<>>} \cup
         UNION {{<<x>> \o l : l \in AnyLists(S, n - 1)} : x \in S}

\* Bookkeeping for the claims (no code of the pool): the drought counter
\* after the queue changed to q: a drought ends when the empty queue becomes
\* non-empty.
DroughtAfter(q) ==
    IF proxy_queue = <<>> /\ q # <<>> THEN drought + 1 ELSE drought

CallsAfter(q) ==
    IF proxy_queue = <<>> /\ q # <<>> THEN Append(calls, 0) ELSE calls

\* The ghosts of a step that changes the queue to q and adds to the pool or
\* releases into it.
Grow(q) ==
    /\ drought' = DroughtAfter(q)
    /\ calls' = CallsAfter(q)
    /\ grown' = TRUE
    /\ returned' = <<>>

\* ------------------------------------------------- ProxyPool's operations
\* One call of the public API by a caller that holds no lease object.
add_proxy(url) ==
    /\ ops > 0
    /\ proxy_dict' = add_dict(proxy_dict, url)
    /\ proxy_queue' = add_queue(proxy_dict, proxy_queue, url)
    /\ snapshots' = add_snap(proxy_dict, proxy_queue, snapshots, url)
    /\ orphan' = Orphaned(url)
    /\ Grow(proxy_queue')
    /\ ops' = ops - 1
    /\ UNCHANGED <<cfgvars, gatevars, now, framevars, handlevars, proxy_list,
                   callghost, calls_ok, seen, ncalls, leaseghost, racevars>>

return_proxy(url) ==
    /\ ops > 0
    /\ url \in DOMAIN proxy_dict
    /\ proxy_dict' = return_dict(proxy_dict, url)
    /\ proxy_queue' = return_queue(proxy_dict, proxy_queue, url)
    /\ snapshots' = return_snap(proxy_dict, proxy_queue, snapshots, url)
    /\ Grow(proxy_queue')
    /\ ops' = ops - 1
    /\ UNCHANGED <<cfgvars, gatevars, now, framevars, handlevars, proxy_list,
                   callghost, calls_ok, seen, ncalls, leaseghost,
                   racevars, orphan>>

\* A step that changes nothing but the registry's ProxyData of url.
SetData(url, pd) ==
    /\ ops > 0
    /\ url \in DOMAIN proxy_dict
    /\ proxy_dict' = [proxy_dict EXCEPT ![url] = pd]
    /\ ops' = ops - 1
    /\ UNCHANGED <<cfgvars, proxy_queue, gatevars, now, framevars, handlevars,
                   proxy_list, callghost, replghost, histghost, leaseghost,
                   racevars, orphan, snapshots>>

use_proxy(url) ==
    /\ url \in DOMAIN proxy_dict
    /\ SetData(url, use(proxy_dict[url], time_out_on_use))

timeout_proxy(url, time_sec) ==
    /\ url \in DOMAIN proxy_dict
    /\ SetData(url, give_timeout(proxy_dict[url], time_sec))

ban_proxy(url) ==
    /\ url \in DOMAIN proxy_dict
    /\ SetData(url, ban(proxy_dict[url]))

unban_proxy(url) ==
    /\ url \in DOMAIN proxy_dict
    /\ SetData(url, unban(proxy_dict[url]))

\* time.time() advances.
Tick ==
    /\ now < MaxTime
    /\ now' = now + 1
    /\ UNCHANGED <<cfgvars, poolvars, gatevars, framevars, handlevars,
                   proxy_list, ops, callghost, replghost, histghost,
                   leaseghost, racevars, orphan, snapshots>>

\* ------------------------------------------------------------- get_proxy
\* A call of get_proxy(prev) by thread t begins; who is the caller: the API
\* ("get"), Proxy.__init__ ("ctor") or Proxy.use ("use").
StartGet(t, prev, who) ==
    /\ pc[t] = "idle"
    /\ ops > 0
    /\ pc' = [pc EXCEPT ![t] = "gate"]
    /\ op' = [op EXCEPT ![t] = who]
    /\ prev_proxy' = [prev_proxy EXCEPT ![t] = prev]
    /\ replenish' = [replenish EXCEPT ![t] = TRUE]
    /\ proxy_str' = [proxy_str EXCEPT ![t] = None]
    /\ result' = [result EXCEPT ![t] = NoResult]
    /\ invoked' = [invoked EXCEPT ![t] = 0]
    /\ popped' = [popped EXCEPT ![t] = 0]
    /\ ncalls' = [ncalls EXCEPT ![t] = @ + 1]
    /\ ops' = ops - 1
    /\ UNCHANGED <<cfgvars, poolvars, gatevars, now, handlevars, proxy_list,
                   replghost, returned, grown, leaseghost,
                   racevars, orphan, snapshots>>

\* The pool as it is when a call begins, kept to compare at its end.
Observed(t) ==
    before' = [before EXCEPT ![t] =
                 [set |-> TRUE, queue |-> proxy_queue, dict |-> proxy_dict]]

\* get_proxy(prev) through the API, by a caller whose call is observed.
get_proxy(t, prev) == StartGet(t, prev, "get") /\ Observed(t)

\* get_proxy() through the API, by one of several concurrent threads.
get_proxy_thread(t) ==
    /\ ncalls[t] < MaxCalls
    /\ StartGet(t, None, "get")
    /\ UNCHANGED before

\* Lines 125-127: wait until no replenishment is in progress.  The wait
\* needs the condition's lock, which replenish_proxies holds throughout.
Gate(t) ==
    /\ pc[t] = "gate"
    /\ replenish_condition = None
    /\ ~replenish_lock
    /\ pc' = [pc EXCEPT ![t] = "pop"]
    /\ UNCHANGED <<cfgvars, poolvars, gatevars, now, op, prev_proxy, replenish,
                   proxy_str, result, handlevars, proxy_list, ops, callghost,
                   replghost, histghost, leaseghost,
                   racevars, orphan, snapshots>>

\* popleft that leaves the front in the queue.
PopLeftPeek(t) ==
    /\ pc[t] = "pop"
    /\ popped' = [popped EXCEPT ![t] = @ + 1]
    /\ IF proxy_queue = <<>>
       THEN /\ pc' = [pc EXCEPT ![t] = "empty"]
            /\ seen' = [seen EXCEPT ![t] = drought]
            /\ UNCHANGED <<proxy_queue, proxy_str, snapshots>>
       ELSE /\ pc' = [pc EXCEPT ![t] = "check"]
            /\ proxy_str' = [proxy_str EXCEPT ![t] = Head(proxy_queue)]
            /\ UNCHANGED <<proxy_queue, seen, snapshots>>
    /\ UNCHANGED <<cfgvars, proxy_dict, gatevars, now, op, prev_proxy,
                   replenish, result, handlevars, proxy_list, ops, before,
                   invoked, calls, calls_ok, drought, histghost, leaseghost,
                   racevars, orphan>>

\* Line 130: popleft; IndexError on the empty queue.
PopLeft(t) ==
    /\ pc[t] = "pop"
    /\ popped' = [popped EXCEPT ![t] = @ + 1]
    /\ IF proxy_queue = <<>>
       THEN /\ pc' = [pc EXCEPT ![t] = "empty"]
            /\ seen' = [seen EXCEPT ![t] = drought]
            /\ UNCHANGED <<proxy_queue, proxy_str, snapshots>>
       ELSE /\ pc' = [pc EXCEPT ![t] = "check"]
            /\ proxy_str' = [proxy_str EXCEPT ![t] = Head(proxy_queue)]
            /\ proxy_queue' = Tail(proxy_queue)
            /\ snapshots' = Tail(snapshots)
            /\ UNCHANGED seen
    /\ UNCHANGED <<cfgvars, proxy_dict, gatevars, now, op, prev_proxy,
                   replenish, result, handlevars, proxy_list, ops, before,
                   invoked, calls, calls_ok, drought, histghost, leaseghost,
                   racevars, orphan>>

\* Lines 132-134: look the popped url up and test its cooldown.
Check(t) ==
    /\ pc[t] = "check"
    /\ IF proxy_str[t] \notin DOMAIN proxy_dict
       THEN /\ pc' = [pc EXCEPT ![t] = "done"]
            /\ result' = [result EXCEPT ![t] =
                            [kind |-> "UnknownProxy", url |-> None, at |-> 0]]
       ELSE /\ pc' = [pc EXCEPT ![t] =
                        IF is_timeout(proxy_dict[proxy_str[t]])
                        THEN "reput" ELSE "release"]
            /\ UNCHANGED result
    /\ UNCHANGED <<cfgvars, poolvars, gatevars, now, op, prev_proxy, replenish,
                   proxy_str, handlevars, proxy_list, ops, callghost,
                   replghost, histghost, leaseghost,
                   racevars, orphan, snapshots>>

\* The cooldown branch without its put: the popped url is lost.
RePutLost(t) ==
    /\ pc[t] = "reput"
    /\ result' = [result EXCEPT ![t] =
                    [kind |-> "ProxiesTimeout", url |-> None,
                     at |-> proxy_dict[proxy_str[t]].timeout]]
    /\ pc' = [pc EXCEPT ![t] = "done"]
    /\ UNCHANGED <<cfgvars, poolvars, gatevars, now, op, prev_proxy,
                   replenish, proxy_str, handlevars, proxy_list, ops,
                   callghost, replghost, histghost, leaseghost,
                   racevars, orphan, snapshots>>

\* Lines 135-136: the popped endpoint is in cooldown: put it back and raise
\* ProxiesTimeout with its timeout.
RePut(t) ==
    /\ pc[t] = "reput"
    /\ LET tmo == IF orphan[t].is THEN orphan[t].timeout
                  ELSE proxy_dict[proxy_str[t]].timeout
       IN  /\ proxy_queue' = put(proxy_queue, proxy_dict, proxy_str[t], tmo)
           /\ snapshots' = put_snap(proxy_queue, snapshots, proxy_dict,
                                    proxy_str[t], tmo)
           /\ result' = [result EXCEPT ![t] =
                           IF put_raises(proxy_queue, proxy_dict,
                                         proxy_str[t], tmo)
                           THEN [kind |-> "UnknownProxy", url |-> None,
                                 at |-> 0]
                           ELSE [kind |-> "ProxiesTimeout", url |-> None,
                                 at |-> tmo]]
    /\ pc' = [pc EXCEPT ![t] = "done"]
    /\ drought' = DroughtAfter(proxy_queue')
    /\ calls' = CallsAfter(proxy_queue')
    /\ UNCHANGED <<cfgvars, proxy_dict, gatevars, now, op, prev_proxy,
                   replenish, proxy_str, handlevars, proxy_list, ops,
                   callghost, calls_ok, seen, histghost, leaseghost,
                   racevars, orphan>>

\* Lines 138-139: release prev_proxy, if one was given.
ReleasePrev(t) ==
    /\ pc[t] = "release"
    /\ IF prev_proxy[t] = None
       THEN /\ pc' = [pc EXCEPT ![t] = "incr"]
            /\ UNCHANGED <<poolvars, result, drought, calls, grown, returned,
                           released, snapshots>>
       ELSE IF prev_proxy[t] \notin DOMAIN proxy_dict
       THEN /\ pc' = [pc EXCEPT ![t] = "done"]
            /\ result' = [result EXCEPT ![t] =
                            [kind |-> "UnknownProxy", url |-> None, at |-> 0]]
            /\ UNCHANGED <<poolvars, drought, calls, grown, returned,
                           released, snapshots>>
       ELSE /\ proxy_dict' = return_dict(proxy_dict, prev_proxy[t])
            /\ proxy_queue' =
                   return_queue(proxy_dict, proxy_queue, prev_proxy[t])
            /\ snapshots' = return_snap(proxy_dict, proxy_queue, snapshots,
                                        prev_proxy[t])
            /\ Grow(proxy_queue')
            /\ released' = IF op[t] = "use"
                           THEN [released EXCEPT ![t][prev_proxy[t]] = @ + 1]
                           ELSE released
            /\ IF return_raises(proxy_dict, proxy_queue, prev_proxy[t])
               THEN /\ pc' = [pc EXCEPT ![t] = "done"]
                    /\ result' = [result EXCEPT ![t] =
                                    [kind |-> "UnknownProxy", url |-> None,
                                     at |-> 0]]
               ELSE /\ pc' = [pc EXCEPT ![t] = "incr"]
                    /\ UNCHANGED result
    /\ UNCHANGED <<cfgvars, gatevars, now, op, prev_proxy, replenish,
                   proxy_str, handlevars, proxy_list, ops, callghost,
                   calls_ok, seen, ncalls, held, racevars, orphan>>

\* Lines 141-143: count the lessee and return the url.
Incr(t) ==
    /\ pc[t] = "incr"
    /\ proxy_dict' =
           IF proxy_str[t] \in DOMAIN proxy_dict /\ ~orphan[t].is
           THEN [proxy_dict EXCEPT ![proxy_str[t]].given_out_counter = @ + 1]
           ELSE proxy_dict
    /\ result' = [result EXCEPT ![t] =
                    [kind |-> "ok", url |-> proxy_str[t], at |-> 0]]
    /\ returned' = IF grown THEN returned ELSE Append(returned, proxy_str[t])
    /\ pc' = [pc EXCEPT ![t] = "done"]
    /\ UNCHANGED <<cfgvars, proxy_queue, gatevars, now, op, prev_proxy,
                   replenish, proxy_str, handlevars, proxy_list, ops,
                   callghost, replghost, grown, ncalls, leaseghost,
                   racevars, orphan, snapshots>>

\* Lines 145-152: the queue was empty.
Empty(t) ==
    /\ pc[t] = "empty"
    /\ IF replenish_proxies_func /\ replenish[t]
       THEN /\ pc' = [pc EXCEPT ![t] = "enter"]
            /\ UNCHANGED result
       ELSE /\ pc' = [pc EXCEPT ![t] = "done"]
            /\ result' = [result EXCEPT ![t] =
                            [kind |-> "NoValidProxies", url |-> None, at |-> 0]]
    /\ UNCHANGED <<cfgvars, poolvars, gatevars, now, op, prev_proxy, replenish,
                   proxy_str, handlevars, proxy_list, ops, callghost,
                   replghost, histghost, leaseghost,
                   racevars, orphan, snapshots>>

\* ----------------------------------------------------- replenish_proxies
\* replenish_proxies that takes no lock before it calls the callback.
ReplenishEnterUnlocked(t) ==
    /\ pc[t] = "enter"
    /\ pc' = [pc EXCEPT ![t] = "callback"]
    /\ invoked' = [invoked EXCEPT ![t] = @ + 1]
    /\ calls' = [calls EXCEPT ![seen[t] + 1] = @ + 1]
    /\ UNCHANGED <<cfgvars, poolvars, gatevars, now, op, prev_proxy,
                   replenish, proxy_str, result, handlevars, proxy_list, ops,
                   before, popped, calls_ok, drought, seen, histghost,
                   leaseghost, racevars, orphan, snapshots>>

\* Lines 155-160: take the condition's lock, then the replenish lock, and
\* call the callback.
ReplenishEnter(t) ==
    /\ pc[t] = "enter"
    /\ replenish_condition = None
    /\ ~replenish_lock
    /\ replenish_condition' = t
    /\ replenish_lock' = TRUE
    /\ pc' = [pc EXCEPT ![t] = "callback"]
    /\ invoked' = [invoked EXCEPT ![t] = @ + 1]
    /\ calls' = [calls EXCEPT ![seen[t] + 1] = @ + 1]
    /\ UNCHANGED <<cfgvars, poolvars, now, op, prev_proxy, replenish,
                   proxy_str, result, handlevars, proxy_list, ops, before,
                   popped, calls_ok, drought, seen, histghost, leaseghost,
                   racevars, orphan, snapshots>>

\* Line 160: the callback, an external function: it adds a list of new
\* endpoints (add_proxies) and returns.
CallbackReturns(t) ==
    /\ pc[t] = "callback"
    /\ \E list \in Lists(Proxies \ DOMAIN proxy_dict, MaxAdd) :
          /\ proxy_dict' = add_proxies_dict(proxy_dict, list)
          /\ proxy_queue' = add_proxies_queue(proxy_dict, proxy_queue, list)
          /\ snapshots' =
                 add_proxies_snap(proxy_dict, proxy_queue, snapshots, list)
          /\ calls_ok' = (calls_ok /\ Len(list) >= Cardinality(Threads))
          /\ IF list = <<>>
             THEN UNCHANGED <<drought, calls, grown, returned>>
             ELSE Grow(proxy_queue')
    /\ pc' = [pc EXCEPT ![t] = "repl_ok"]
    /\ UNCHANGED <<cfgvars, gatevars, now, op, prev_proxy, replenish,
                   proxy_str, result, handlevars, proxy_list, ops, callghost,
                   seen, ncalls, leaseghost, racevars, orphan>>

\* Line 160: the callback raises.
CallbackRaises(t) ==
    /\ pc[t] = "callback"
    /\ pc' = [pc EXCEPT ![t] = "repl_exc"]
    /\ calls_ok' = FALSE
    /\ UNCHANGED <<cfgvars, poolvars, gatevars, now, op, prev_proxy, replenish,
                   proxy_str, result, handlevars, proxy_list, ops, callghost,
                   calls, drought, seen, histghost, leaseghost,
                   racevars, orphan, snapshots>>

\* The recursive call that may replenish again.
ReplenishOkAgain(t) ==
    /\ pc[t] = "repl_ok"
    /\ replenish_lock' = FALSE
    /\ replenish_condition' = None
    /\ pc' = [pc EXCEPT ![t] = "gate"]
    /\ UNCHANGED <<cfgvars, poolvars, now, op, prev_proxy, replenish,
                   proxy_str, result, handlevars, proxy_list, ops, callghost,
                   replghost, histghost, leaseghost,
                   racevars, orphan, snapshots>>

\* Lines 161-162 and 150: release the lock, wake the waiters, leave the
\* condition, and call get_proxy(prev_proxy, _replenish = False).
ReplenishOk(t) ==
    /\ pc[t] = "repl_ok"
    /\ replenish_lock' = FALSE
    /\ replenish_condition' = None
    /\ replenish' = [replenish EXCEPT ![t] = FALSE]
    /\ pc' = [pc EXCEPT ![t] = "gate"]
    /\ UNCHANGED <<cfgvars, poolvars, now, op, prev_proxy, proxy_str, result,
                   handlevars, proxy_list, ops, callghost, replghost,
                   histghost, leaseghost, racevars, orphan, snapshots>>

\* The except branch without its release of the replenish lock.
ReplenishFailLocked(t) ==
    /\ pc[t] = "repl_exc"
    /\ replenish_condition' = None
    /\ result' = [result EXCEPT ![t] =
                    [kind |-> "CallbackError", url |-> None, at |-> 0]]
    /\ pc' = [pc EXCEPT ![t] = "done"]
    /\ UNCHANGED <<cfgvars, poolvars, replenish_lock, now, op, prev_proxy,
                   replenish, proxy_str, handlevars, proxy_list, ops,
                   callghost, replghost, histghost, leaseghost,
                   racevars, orphan, snapshots>>

\* Lines 163-166: release the lock, wake the waiters, re-raise; the error
\* leaves get_proxy.
ReplenishFail(t) ==
    /\ pc[t] = "repl_exc"
    /\ replenish_lock' = FALSE
    /\ replenish_condition' = None
    /\ result' = [result EXCEPT ![t] =
                    [kind |-> "CallbackError", url |-> None, at |-> 0]]
    /\ pc' = [pc EXCEPT ![t] = "done"]
    /\ UNCHANGED <<cfgvars, poolvars, now, op, prev_proxy, replenish,
                   proxy_str, handlevars, proxy_list, ops, callghost,
                   replghost, histghost, leaseghost,
                   racevars, orphan, snapshots>>

\* The frame of a thread that is not in get_proxy.
ClearFrame(t) ==
    /\ pc' = [pc EXCEPT ![t] = "idle"]
    /\ op' = [op EXCEPT ![t] = "get"]
    /\ prev_proxy' = [prev_proxy EXCEPT ![t] = None]
    /\ replenish' = [replenish EXCEPT ![t] = TRUE]
    /\ proxy_str' = [proxy_str EXCEPT ![t] = None]
    /\ result' = [result EXCEPT ![t] = NoResult]
    /\ before' = [before EXCEPT ![t] = NoBefore]
    /\ invoked' = [invoked EXCEPT ![t] = 0]
    /\ popped' = [popped EXCEPT ![t] = 0]
    /\ orphan' = [orphan EXCEPT ![t] = NotOrphan]

\* get_proxy, called through the API, returns or raises to its caller.
ReturnGet(t) ==
    /\ pc[t] = "done"
    /\ op[t] = "get"
    /\ ClearFrame(t)
    /\ UNCHANGED <<cfgvars, poolvars, gatevars, now, handlevars, proxy_list,
                   ops, replghost, histghost, leaseghost,
                   racevars, snapshots>>

\* ---------------------------------------------------------- remove_proxy
\* remove_proxy(url) by thread t, line 89: the registry's pop; KeyError for an
\* url that is not registered.
remove_proxy(t, url) ==
    /\ pc[t] = "idle"
    /\ ops > 0
    /\ op' = [op EXCEPT ![t] = "remove"]
    /\ proxy_str' = [proxy_str EXCEPT ![t] = url]
    /\ IF url \in DOMAIN proxy_dict
       THEN /\ proxy_dict' =
                   [u \in DOMAIN proxy_dict \ {url} |-> proxy_dict[u]]
            /\ orphan' = Orphaned(url)
            /\ pc' = [pc EXCEPT ![t] = "rm_queue"]
            /\ UNCHANGED result
       ELSE /\ pc' = [pc EXCEPT ![t] = "done"]
            /\ result' = [result EXCEPT ![t] =
                            [kind |-> "KeyError", url |-> None, at |-> 0]]
            /\ UNCHANGED <<proxy_dict, orphan>>
    /\ ops' = ops - 1
    /\ UNCHANGED <<cfgvars, proxy_queue, gatevars, now, prev_proxy, replenish,
                   handlevars, proxy_list, callghost, replghost, histghost,
                   leaseghost, racevars, snapshots>>

\* Line 90 (and 26-28): the queue's remove, under its lock; deque.remove
\* raises ValueError for an url that is not in the queue.
RemoveQueue(t) ==
    /\ pc[t] = "rm_queue"
    /\ IF IndexOf(proxy_queue, proxy_str[t]) = 0
       THEN /\ result' = [result EXCEPT ![t] =
                            [kind |-> "ValueError", url |-> None, at |-> 0]]
            /\ UNCHANGED <<proxy_queue, snapshots>>
       ELSE /\ result' = [result EXCEPT ![t] =
                            [kind |-> "ok", url |-> None, at |-> 0]]
            /\ proxy_queue' = RemoveFirst(proxy_queue, proxy_str[t])
            /\ snapshots' =
                   RemoveAt(snapshots, IndexOf(proxy_queue, proxy_str[t]))
    /\ pc' = [pc EXCEPT ![t] = "done"]
    /\ UNCHANGED <<cfgvars, proxy_dict, gatevars, now, op, prev_proxy,
                   replenish, proxy_str, handlevars, proxy_list, ops,
                   callghost, replghost, histghost, leaseghost, racevars,
                   orphan>>

\* remove_proxy returns or raises to its caller.
ReturnRemove(t) ==
    /\ pc[t] = "done"
    /\ op[t] = "remove"
    /\ ClearFrame(t)
    /\ UNCHANGED <<cfgvars, poolvars, gatevars, now, handlevars, proxy_list,
                   ops, replghost, histghost, leaseghost, racevars, snapshots>>

\* ------------------------------------- the counters, statement by statement
\* use_proxy(url) by thread t, lines 195 and 217: self.used_counter += 1
\* reads the counter ...
UseLoad(t, url) ==
    /\ pc[t] = "idle"
    /\ ops > 0
    /\ url \in DOMAIN proxy_dict
    /\ op' = [op EXCEPT ![t] = "use_proxy"]
    /\ proxy_str' = [proxy_str EXCEPT ![t] = url]
    /\ loaded' = [loaded EXCEPT ![t] = proxy_dict[url].used_counter]
    /\ pc' = [pc EXCEPT ![t] = "use_store"]
    /\ ops' = ops - 1
    /\ UNCHANGED <<cfgvars, poolvars, gatevars, now, prev_proxy, replenish,
                   result, handlevars, proxy_list, callghost, replghost,
                   histghost, leaseghost, completed, orphan, snapshots>>

\* ... and writes it, one higher (line 217); then the cooldown on use (lines
\* 219-220), and use_proxy returns.
UseStore(t) ==
    /\ pc[t] = "use_store"
    /\ proxy_dict' =
           [proxy_dict EXCEPT ![proxy_str[t]] =
               LET u == [@ EXCEPT !.used_counter = loaded[t] + 1]
               IN  IF time_out_on_use > 0
                   THEN give_timeout(u, time_out_on_use) ELSE u]
    /\ completed' = [completed EXCEPT ![proxy_str[t]].use = @ + 1]
    /\ loaded' = [loaded EXCEPT ![t] = 0]
    /\ ClearFrame(t)
    /\ UNCHANGED <<cfgvars, proxy_queue, gatevars, now, handlevars,
                   proxy_list, ops, replghost, histghost, leaseghost,
                   snapshots>>

\* return_proxy(url) by thread t, lines 115 and 117:
\* proxy.given_out_counter -= 1 reads the counter ...
ReturnLoad(t, url) ==
    /\ pc[t] = "idle"
    /\ ops > 0
    /\ url \in DOMAIN proxy_dict
    /\ op' = [op EXCEPT ![t] = "return"]
    /\ proxy_str' = [proxy_str EXCEPT ![t] = url]
    /\ loaded' = [loaded EXCEPT ![t] = proxy_dict[url].given_out_counter]
    /\ pc' = [pc EXCEPT ![t] = "return_store"]
    /\ ops' = ops - 1
    /\ UNCHANGED <<cfgvars, poolvars, gatevars, now, prev_proxy, replenish,
                   result, handlevars, proxy_list, callghost, replghost,
                   histghost, leaseghost, completed, orphan, snapshots>>

\* ... and writes it, one lower (line 117); then the put of an endpoint that
\* is valid to give (lines 119-120), and return_proxy returns.
ReturnStore(t) ==
    /\ pc[t] = "return_store"
    /\ LET url == proxy_str[t]
           \* the registry as it is when the counter holds what was read
           d == [proxy_dict EXCEPT ![url].given_out_counter = loaded[t]]
       IN  /\ proxy_dict' = return_dict(d, url)
           /\ proxy_queue' = return_queue(d, proxy_queue, url)
           /\ snapshots' = return_snap(d, proxy_queue, snapshots, url)
    /\ Grow(proxy_queue')
    /\ completed' = [completed EXCEPT ![proxy_str[t]].return = @ + 1]
    /\ loaded' = [loaded EXCEPT ![t] = 0]
    /\ ClearFrame(t)
    /\ UNCHANGED <<cfgvars, gatevars, now, handlevars, proxy_list, ops,
                   calls_ok, seen, ncalls, leaseghost>>

\* ------------------------------------------------------------ class Proxy
\* ProxyPool.Proxy(proxy) with an url (lines 105-110, 246-247): the url is
\* added when unknown, and assigned without a get_proxy.
ProxyOf(t, url) ==
    /\ pc[t] = "idle"
    /\ hstate[t] = "none"
    /\ ops > 0
    /\ IF url \in DOMAIN proxy_dict
       THEN UNCHANGED <<poolvars, drought, calls, grown, returned, snapshots>>
       ELSE /\ proxy_dict' = add_dict(proxy_dict, url)
            /\ proxy_queue' = add_queue(proxy_dict, proxy_queue, url)
            /\ snapshots' = add_snap(proxy_dict, proxy_queue, snapshots, url)
            /\ Grow(proxy_queue')
    /\ hstate' = [hstate EXCEPT ![t] = "live"]
    /\ assigned_proxy' = [assigned_proxy EXCEPT ![t] = url]
    /\ held' = [held EXCEPT ![t][url] = @ + 1]
    /\ ops' = ops - 1
    /\ UNCHANGED <<cfgvars, gatevars, now, framevars, proxy_list, callghost,
                   calls_ok, seen, ncalls, released, racevars, orphan>>

\* ProxyPool.Proxy() (lines 244-245): the pool chooses.
ProxyNew(t) ==
    /\ hstate[t] = "none"
    /\ StartGet(t, None, "ctor")
    /\ UNCHANGED before

\* Proxy.__init__ gets the url, or the error leaves the constructor and no
\* object with an assigned_proxy exists.
ReturnCtor(t) ==
    /\ pc[t] = "done"
    /\ op[t] = "ctor"
    /\ IF result[t].kind = "ok"
       THEN /\ hstate' = [hstate EXCEPT ![t] = "live"]
            /\ assigned_proxy' = [assigned_proxy EXCEPT ![t] = result[t].url]
            /\ held' = [held EXCEPT ![t][result[t].url] = @ + 1]
       ELSE /\ hstate' = [hstate EXCEPT ![t] = "dead"]
            /\ UNCHANGED <<assigned_proxy, held>>
    /\ ClearFrame(t)
    /\ UNCHANGED <<cfgvars, poolvars, gatevars, now, proxy_list, ops,
                   replghost, histghost, released,
                   racevars, snapshots>>

\* Proxy.use (lines 252-258) when the held url is valid to use.
ProxyUseHeld(t) ==
    /\ pc[t] = "idle"
    /\ hstate[t] = "live"
    /\ assigned_proxy[t] \in DOMAIN proxy_dict
    /\ proxy_valid_to_use(proxy_dict[assigned_proxy[t]])
    /\ use_proxy(assigned_proxy[t])

\* Proxy.use when it is not: get_proxy(self.assigned_proxy).
ProxyUseSwap(t) ==
    /\ hstate[t] = "live"
    /\ assigned_proxy[t] \in DOMAIN proxy_dict
    /\ ~proxy_valid_to_use(proxy_dict[assigned_proxy[t]])
    /\ StartGet(t, assigned_proxy[t], "use")
    /\ UNCHANGED before

\* Lines 254-258 after get_proxy: assign the new url and use it; an error
\* leaves use() with the assignment as it was.
ReturnUse(t) ==
    /\ pc[t] = "done"
    /\ op[t] = "use"
    /\ IF result[t].kind = "ok"
       THEN /\ assigned_proxy' = [assigned_proxy EXCEPT ![t] = result[t].url]
            /\ held' = [held EXCEPT ![t][result[t].url] = @ + 1]
            /\ proxy_dict' =
                 IF result[t].url \in DOMAIN proxy_dict
                 THEN [proxy_dict EXCEPT ![result[t].url] =
                          use(proxy_dict[result[t].url], time_out_on_use)]
                 ELSE proxy_dict
       ELSE UNCHANGED <<assigned_proxy, held, proxy_dict>>
    /\ ClearFrame(t)
    /\ UNCHANGED <<cfgvars, proxy_queue, gatevars, now, hstate, proxy_list,
                   ops, replghost, histghost, released,
                   racevars, snapshots>>

\* Proxy.timeout (lines 260-261).
ProxyTimeout(t, time_sec) ==
    /\ pc[t] = "idle"
    /\ hstate[t] = "live"
    /\ timeout_proxy(assigned_proxy[t], time_sec)

\* Proxy.ban (lines 263-264).
ProxyBan(t) ==
    /\ pc[t] = "idle"
    /\ hstate[t] = "live"
    /\ ban_proxy(assigned_proxy[t])

\* __del__ that forgets to return the url.
ProxyDelLeak(t) ==
    /\ pc[t] = "idle"
    /\ hstate[t] = "live"
    /\ hstate' = [hstate EXCEPT ![t] = "dead"]
    /\ UNCHANGED <<cfgvars, poolvars, gatevars, now, framevars, assigned_proxy,
                   proxy_list, ops, callghost, replghost, histghost,
                   leaseghost, racevars, orphan, snapshots>>

\* Proxy.__del__ (lines 266-268): the scope of the lease ends.
ProxyDel(t) ==
    /\ pc[t] = "idle"
    /\ hstate[t] = "live"
    /\ assigned_proxy[t] \in DOMAIN proxy_dict
    /\ proxy_dict' = return_dict(proxy_dict, assigned_proxy[t])
    /\ proxy_queue' = return_queue(proxy_dict, proxy_queue, assigned_proxy[t])
    /\ snapshots' = return_snap(proxy_dict, proxy_queue, snapshots,
                                assigned_proxy[t])
    /\ Grow(proxy_queue')
    /\ hstate' = [hstate EXCEPT ![t] = "dead"]
    /\ released' = [released EXCEPT ![t][assigned_proxy[t]] = @ + 1]
    /\ UNCHANGED <<cfgvars, gatevars, now, framevars, assigned_proxy,
                   proxy_list, ops, callghost, calls_ok, seen, ncalls, held,
                   racevars, orphan>>

\* ------------------------------------------------------------------ Init
\* ProxyPool(proxy_list, max_time_outs, max_uses, time_out_on_use,
\* replenish_proxies_func) (lines 54-69).
Constructed(list, mto, mu, tou, func, budget) ==
    /\ proxy_list = list
    /\ max_time_outs = mto
    /\ max_uses = mu
    /\ time_out_on_use = tou
    /\ replenish_proxies_func = func
    /\ proxy_dict = [u \in Elems(list) |-> ProxyData]
    /\ proxy_queue = list
    /\ replenish_lock = FALSE
    /\ replenish_condition = None
    /\ now = 1
    /\ pc = [t \in Threads |-> "idle"]
    /\ op = [t \in Threads |-> "get"]
    /\ prev_proxy = [t \in Threads |-> None]
    /\ replenish = [t \in Threads |-> TRUE]
    /\ proxy_str = [t \in Threads |-> None]
    /\ result = [t \in Threads |-> NoResult]
    /\ hstate = [t \in Threads |-> "none"]
    /\ assigned_proxy = [t \in Threads |-> None]
    /\ ops = budget
    /\ before = [t \in Threads |-> NoBefore]
    /\ invoked = [t \in Threads |-> 0]
    /\ popped = [t \in Threads |-> 0]
    /\ calls = <<0>>
    /\ calls_ok = TRUE
    /\ drought = 0
    /\ seen = [t \in Threads |-> 0]
    /\ returned = <<>>
    /\ grown = FALSE
    /\ ncalls = [t \in Threads |-> 0]
    /\ held = [t \in Threads |-> [u \in Proxies |-> 0]]
    /\ released = [t \in Threads |-> [u \in Proxies |-> 0]]
    /\ orphan = [t \in Threads |-> NotOrphan]
    /\ loaded = [t \in Threads |-> 0]
    /\ snapshots = [i \in 1..Len(list) |-> 0]
    /\ completed = [u \in Proxies |-> [use |-> 0, return |-> 0]]

\* The configurations the specifications construct pools with: no ceiling
\* and no cooldown on use, both ceilings, and both with a cooldown on use.
Configs ==
    {[max_time_outs |-> 0, max_uses |-> 0, time_out_on_use |-> 0],
     [max_time_outs |-> 2, max_uses |-> 1, time_out_on_use |-> 0],
     [max_time_outs |-> 1, max_uses |-> 2, time_out_on_use |-> 1]}

\* The constructor's lists, up to the names of the urls.
InitLists == {l \in AnyLists(InitProxies, MaxList) : l = <<>> \/ l[1] = "a"}

\* The thread that calls the API in the sequential specification.
Caller == "t1"

\* ------------------------------------------------------------------ Spec
\* The public API of a pool without a callback, one call at a time.
Init ==
    \E list \in InitLists, c \in Configs :
        Constructed(list, c.max_time_outs, c.max_uses, c.time_out_on_use,
                    FALSE, MaxOps)

Steps(t) ==
    \/ Gate(t)
    \/ PopLeft(t)
    \/ Check(t)
    \/ RePut(t)
    \/ ReleasePrev(t)
    \/ Incr(t)
    \/ Empty(t)
    \/ ReturnGet(t)

Next ==
    \/ Tick
    \/ \E url \in Proxies : Quiet /\ add_proxy(url)
    \/ \E url \in Proxies : Quiet /\ return_proxy(url)
    \/ \E url \in Proxies : Quiet /\ use_proxy(url)
    \/ \E url \in Proxies, time_sec \in Secs :
          Quiet /\ timeout_proxy(url, time_sec)
    \/ \E url \in Proxies : Quiet /\ ban_proxy(url)
    \/ \E url \in Proxies : Quiet /\ unban_proxy(url)
    \/ \E prev \in Proxies \cup {None} : Quiet /\ get_proxy(Caller, prev)
    \/ Steps(Caller)

Spec == Init /\ [][Next]_vars

\* ---------------------------------------------------------------- claims
UnderCeilings(pd) ==
    /\ (max_uses > 0 => pd.used_counter < max_uses)
    /\ (max_time_outs > 0 => pd.timed_out_counter < max_time_outs)

Returned(t) == pc[t] = "done" /\ result[t].kind = "ok"

\* C1: every url get_proxy returns refers to an endpoint that at that moment
\* is not banned and is under the use and timeout ceilings.
C1_ReturnsOnlyEligible ==
    \A t \in Threads :
        Returned(t) /\ result[t].url \in DOMAIN proxy_dict =>
            /\ ~proxy_dict[result[t].url].banned
            /\ UnderCeilings(proxy_dict[result[t].url])

\* C5: a get_proxy that fails with ProxiesTimeout carries the timeout of the
\* endpoint it popped, and leaves the pool as it was when the call began:
\* the queue holds the same urls and no ProxyData changed (so prev_proxy was
\* not released).
C5_CooldownFailureRestores ==
    \A t \in Threads :
        pc[t] = "done" /\ result[t].kind = "ProxiesTimeout" =>
            /\ before[t].set
            /\ proxy_str[t] = Head(before[t].queue)
            /\ result[t].at = before[t].dict[proxy_str[t]].timeout
            /\ Elems(proxy_queue) = Elems(before[t].queue)
            /\ proxy_dict = before[t].dict

\* A cooldown failure of a call that was given a registered prev_proxy, on a
\* queue of two urls.
C5_Witness ==
    \E t \in Threads :
        /\ pc[t] = "done"
        /\ result[t].kind = "ProxiesTimeout"
        /\ prev_proxy[t] \in DOMAIN proxy_dict
        /\ Cardinality(Elems(proxy_queue)) = 2

\* C6: the endpoint get_proxy returns is not in cooldown when it is handed
\* out: its timeout is not after now.
C6_ReturnedNotInCooldown ==
    \A t \in Threads :
        Returned(t) /\ result[t].url \in DOMAIN proxy_dict =>
            proxy_dict[result[t].url].timeout <= now

\* get_proxy returned an endpoint on which a cooldown had been imposed.
C6_Witness ==
    \E t \in Threads :
        /\ Returned(t)
        /\ result[t].url \in DOMAIN proxy_dict
        /\ proxy_dict[result[t].url].timed_out_counter > 0
        /\ proxy_dict[result[t].url].timeout = now

\* C7: return_proxy(url) decrements given_out_counter by one; then an
\* endpoint that is not banned and under both ceilings is in the queue
\* exactly once, in cooldown or not, and any other is not inserted.
C7_ReleaseRequeuesOnce ==
    [][\A url \in Proxies :
          return_proxy(url) =>
              /\ proxy_dict'[url].given_out_counter =
                     proxy_dict[url].given_out_counter - 1
              /\ IF ~proxy_dict[url].banned /\ UnderCeilings(proxy_dict[url])
                 THEN Count(proxy_queue', url) = 1
                 ELSE proxy_queue' = proxy_queue]_vars

\* C7, restricted: the same statement for a queue that holds no url twice
\* (it holds; the statement above fails on a queue with a repeated url).
C7_ReleaseRequeuesOnceNoDup ==
    [][\A url \in Proxies :
          return_proxy(url) /\ (\A u \in Proxies : Count(proxy_queue, u) <= 1)
          =>  /\ proxy_dict'[url].given_out_counter =
                     proxy_dict[url].given_out_counter - 1
              /\ IF ~proxy_dict[url].banned /\ UnderCeilings(proxy_dict[url])
                 THEN Count(proxy_queue', url) = 1
                 ELSE proxy_queue' = proxy_queue]_vars

\* C16: when get_proxy fails with ProxiesTimeout, the popped endpoint being
\* in cooldown still, every endpoint in the queue is in cooldown at that
\* moment, whatever put, timeout_proxy and use_proxy calls preceded.
C16_CooldownMeansAllCooling ==
    [][\A t \in Threads :
          /\ pc[t] = "reput"
          /\ pc'[t] = "done"
          /\ result'[t].kind = "ProxiesTimeout"
          /\ is_timeout(proxy_dict[proxy_str[t]])
          =>  \A u \in Elems(proxy_queue') :
                  u \in DOMAIN proxy_dict /\ is_timeout(proxy_dict[u])]_vars

\* C17: the queue (of a pool constructed from a list without a repeated
\* url) is sorted in ascending order of the timeout each entry had when put
\* inserted it last.
C17_SortedBySnapshot ==
    NoDup(proxy_list) =>
        \A i, j \in 1..Len(snapshots) : i < j => snapshots[i] <= snapshots[j]

\* C19: a get_proxy that ends in an error (ProxiesTimeout, NoValidProxies or
\* UnknownProxy) leaves every url that was in the queue when the call began
\* in the queue.
C19_FailedGetKeepsQueue ==
    \A t \in Threads :
        /\ pc[t] = "done"
        /\ before[t].set
        /\ result[t].kind \in {"ProxiesTimeout", "NoValidProxies",
                               "UnknownProxy"}
        =>  Elems(before[t].queue) \subseteq Elems(proxy_queue)

\* ------------------------------------------------------------- LeaseSpec
\* Lease objects (class Proxy), one per thread, used one call at a time on
\* a pool without a callback; add_proxy may re-add an url that is held.
LeaseInit ==
    \E list \in InitLists, c \in Configs :
        Constructed(list, c.max_time_outs, c.max_uses, c.time_out_on_use,
                    FALSE, MaxLeaseOps)

LeaseSteps(t) ==
    \/ Gate(t)
    \/ PopLeft(t)
    \/ Check(t)
    \/ RePut(t)
    \/ ReleasePrev(t)
    \/ Incr(t)
    \/ Empty(t)
    \/ ReturnCtor(t)
    \/ ReturnUse(t)

LeaseNext ==
    \/ Tick
    \/ \E url \in Proxies : Quiet /\ add_proxy(url)
    \/ \E t \in Threads, url \in Proxies : Quiet /\ ProxyOf(t, url)
    \/ \E t \in Threads : Quiet /\ ProxyNew(t)
    \/ \E t \in Threads : Quiet /\ ProxyUseHeld(t)
    \/ \E t \in Threads : Quiet /\ ProxyUseSwap(t)
    \/ \E t \in Threads, time_sec \in Secs : Quiet /\ ProxyTimeout(t, time_sec)
    \/ \E t \in Threads : Quiet /\ ProxyBan(t)
    \/ \E t \in Threads : Quiet /\ ProxyDel(t)
    \/ \E t \in Threads : LeaseSteps(t)

LeaseSpec == LeaseInit /\ [][LeaseNext]_vars

\* C8: every endpoint a lease object has held is released exactly once: it
\* has released each url as often as it began to hold it, less the one it
\* holds now; after the end of its scope nothing is left.
C8_HeldReleasedOnce ==
    \A t \in Threads :
        pc[t] = "idle" =>
            \A u \in Proxies :
                released[t][u] =
                    held[t][u] -
                    (IF hstate[t] = "live" /\ assigned_proxy[t] = u
                     THEN 1 ELSE 0)

\* The scope of a lease object ended after it had swapped its url.
C8_Witness ==
    \E t \in Threads, u, v \in Proxies :
        /\ hstate[t] = "dead"
        /\ u # v
        /\ held[t][u] = 1
        /\ held[t][v] = 1
        /\ released[t][u] = 1
        /\ released[t][v] = 1

\* C10: given_out_counter of every registered endpoint is at least 0.
C10_OutstandingNonNegative ==
    \A u \in DOMAIN proxy_dict : proxy_dict[u].given_out_counter >= 0

\* -------------------------------------------------------------- ConcSpec
\* Threads call get_proxy() concurrently, MaxCalls times each, on a pool
\* with or without a callback; their steps interleave freely.
NoCeilings == [max_time_outs |-> 0, max_uses |-> 0, time_out_on_use |-> 0]

ConcInit ==
    \E list \in InitLists, func \in BOOLEAN :
        Constructed(list, NoCeilings.max_time_outs, NoCeilings.max_uses,
                    NoCeilings.time_out_on_use, func,
                    MaxCalls * Cardinality(Threads))

\* The steps of a call in progress.
Run(t) ==
    \/ Gate(t)
    \/ PopLeft(t)
    \/ Check(t)
    \/ ReleasePrev(t)
    \/ Incr(t)
    \/ Empty(t)
    \/ ReplenishEnter(t)
    \/ CallbackReturns(t)
    \/ CallbackRaises(t)
    \/ ReplenishOk(t)
    \/ ReplenishFail(t)
    \/ ReturnGet(t)

ConcNext ==
    \/ \E t \in Threads : get_proxy_thread(t)
    \/ \E t \in Threads : Run(t)

ConcSpec == ConcInit /\ [][ConcNext]_vars

\* The scheduler runs every thread that can take a step and the callback
\* ends (it returns or raises); a caller need not call again.
FairConcSpec == ConcSpec /\ \A t \in Threads : WF_vars(Run(t))

\* C2: the callback is invoked once per drought: no two invocations follow
\* from observations of the same empty queue, when every callback that
\* returned had added an endpoint for each caller.
C2_OnceForDrought ==
    calls_ok => \A i \in 1..Len(calls) : calls[i] <= 1

\* C3: while nothing was added or released, the urls that concurrent
\* get_proxy calls returned from a queue of distinct urls are pairwise
\* distinct.
C3_DistinctUrls ==
    NoDup(proxy_list) /\ ~grown => NoDup(returned)

\* Two concurrent calls have both returned an url of the constructor's list.
C3_Witness ==
    /\ NoDup(proxy_list)
    /\ ~grown
    /\ Len(returned) = 2
    /\ \A t \in Threads : Returned(t)

\* C4: one get_proxy call invokes the callback at most once and pops at most
\* twice; NoValidProxies comes after no invocation and one pop without a
\* callback, after one invocation and a second pop with one.
C4_OneReplenishPerCall ==
    \A t \in Threads :
        /\ invoked[t] <= 1
        /\ popped[t] <= 2
        /\ ~replenish_proxies_func => invoked[t] = 0
        /\ pc[t] = "done" /\ result[t].kind = "NoValidProxies" =>
              IF replenish_proxies_func
              THEN invoked[t] = 1 /\ popped[t] = 2
              ELSE invoked[t] = 0 /\ popped[t] = 1

\* A call that replenished, popped again and still found the queue empty.
C4_Witness ==
    \E t \in Threads :
        /\ pc[t] = "done"
        /\ result[t].kind = "NoValidProxies"
        /\ invoked[t] = 1
        /\ popped[t] = 2

\* C9: when the callback raises, the error reaches the call that
\* replenished and the replenish lock is released; and every call waiting
\* at the gate eventually passes it.
C9_FailureReleasesWaiters ==
    /\ [][\A t \in Threads :
             pc[t] = "repl_exc" /\ pc'[t] # "repl_exc" =>
                 /\ pc'[t] = "done"
                 /\ result'[t].kind = "CallbackError"
                 /\ ~replenish_lock'
                 /\ replenish_condition' = None]_vars
    /\ \A t \in Threads : (pc[t] = "gate") ~> (pc[t] = "pop")

\* The callback has raised while another call waits at the gate.
C9_Witness ==
    \E t, u \in Threads :
        /\ pc[t] = "repl_exc"
        /\ pc[u] = "gate"

\* C14: at most one thread executes the callback at any time.
C14_OneCallbackAtATime ==
    \A t, u \in Threads :
        pc[t] = "callback" /\ pc[u] = "callback" => t = u

\* A thread executes the callback while another, which found the queue
\* empty as well, is about to replenish.
C14_Witness ==
    \E t, u \in Threads :
        /\ pc[t] = "callback"
        /\ pc[u] = "enter"

\* C15: no get_proxy pops the queue while a replenishment is in progress
\* (the replenish lock is held), a call that passed the gate before the lock
\* was taken included.
C15_NoPopDuringReplenish ==
    [][\A t \in Threads :
          pc[t] = "pop" /\ pc'[t] # "pop" => ~replenish_lock]_vars

\* ------------------------------------------------------------ RemoveSpec
\* One thread calls get_proxy, another remove_proxy, and add_proxy,
\* return_proxy and timeout_proxy are called meanwhile, on a pool without a
\* callback; the steps interleave freely.
Remover == "t2"

RemoveInit ==
    \E list \in InitLists :
        Constructed(list, NoCeilings.max_time_outs, NoCeilings.max_uses,
                    NoCeilings.time_out_on_use, FALSE, MaxRemoveOps)

RemoveNext ==
    \/ Tick
    \/ \E url \in Proxies : add_proxy(url)
    \/ \E url \in Proxies : return_proxy(url)
    \/ \E url \in Proxies, time_sec \in Secs : timeout_proxy(url, time_sec)
    \/ \E prev \in DOMAIN proxy_dict \cup {None} : get_proxy(Caller, prev)
    \/ Steps(Caller)
    \/ \E url \in Proxies : remove_proxy(Remover, url)
    \/ RemoveQueue(Remover)
    \/ ReturnRemove(Remover)

RemoveSpec == RemoveInit /\ [][RemoveNext]_vars

\* C11: in every state, the intermediate states of remove_proxy included,
\* every url in the queue is a key of the registry.
C11_QueueWithinRegistry ==
    Elems(proxy_queue) \subseteq DOMAIN proxy_dict

\* C12: in a pool constructed from a list without a repeated url, every url
\* occurs at most once in the queue, whatever the interleaving of add_proxy,
\* remove_proxy, get_proxy, return_proxy and the cooldown branch's put.
C12_QueueHoldsUrlOnce ==
    NoDup(proxy_list) => NoDup(proxy_queue)

\* The cooldown branch has put back an endpoint that add_proxy or
\* remove_proxy had replaced in the registry, or deleted from it, after the
\* call had popped it.
C12_Witness ==
    \E t \in Threads :
        /\ NoDup(proxy_list)
        /\ pc[t] = "done"
        /\ result[t].kind = "ProxiesTimeout"
        /\ orphan[t].is
        /\ Count(proxy_queue, proxy_str[t]) = 1

\* C13: remove_proxy of a registered url that is not in the queue completes
\* without an error: the queue's remove is a silent no-op.
C13_RemoveAbsentCompletes ==
    [][\A t \in Threads :
          /\ pc[t] = "rm_queue"
          /\ pc'[t] = "done"
          /\ IndexOf(proxy_queue, proxy_str[t]) = 0
          =>  /\ result'[t].kind = "ok"
              /\ proxy_queue' = proxy_queue]_vars

\* -------------------------------------------------------------- RaceSpec
\* Threads call use_proxy and return_proxy concurrently; the read and the
\* write of a counter's += 1 or -= 1 are two steps.
RaceInit ==
    \E list \in InitLists :
        Constructed(list, NoCeilings.max_time_outs, NoCeilings.max_uses,
                    NoCeilings.time_out_on_use, FALSE, MaxRaceOps)

RaceNext ==
    \/ \E t \in Threads, url \in Proxies : UseLoad(t, url)
    \/ \E t \in Threads : UseStore(t)
    \/ \E t \in Threads, url \in Proxies : ReturnLoad(t, url)
    \/ \E t \in Threads : ReturnStore(t)

RaceSpec == RaceInit /\ [][RaceNext]_vars

\* C18: no counter update is lost: when the use_proxy and return_proxy calls
\* of all threads have completed, used_counter of every endpoint has grown
\* by the number of use_proxy calls on it and given_out_counter has fallen by
\* the number of return_proxy calls on it.
C18_NoLostUpdate ==
    Quiet =>
        \A u \in DOMAIN proxy_dict :
            /\ proxy_dict[u].used_counter = completed[u].use
            /\ proxy_dict[u].given_out_counter = 0 - completed[u].return

\* --------------------------------------------------------------- BanSpec
\* get_proxy, return_proxy, ban_proxy and unban_proxy, one call at a time,
\* on a pool without ceilings, cooldowns and callback, by callers that
\* return only what get_proxy gave them.
BanInit ==
    \E list \in InitLists :
        Constructed(list, NoCeilings.max_time_outs, NoCeilings.max_uses,
                    NoCeilings.time_out_on_use, FALSE, MaxBanOps)

BanNext ==
    \/ \E url \in DOMAIN proxy_dict :
          /\ Quiet
          /\ proxy_dict[url].given_out_counter > 0
          /\ return_proxy(url)
    \/ \E url \in Proxies : Quiet /\ ban_proxy(url)
    \/ \E url \in Proxies : Quiet /\ unban_proxy(url)
    \/ Quiet /\ get_proxy(Caller, None)
    \/ Gate(Caller)
    \/ PopLeft(Caller)
    \/ Check(Caller)
    \/ ReleasePrev(Caller)
    \/ Incr(Caller)
    \/ Empty(Caller)
    \/ ReturnGet(Caller)

BanSpec == BanInit /\ [][BanNext]_vars

\* C20: when no call is in progress, every registered endpoint that is not
\* banned, is under both ceilings and has given_out_counter = 0 is in the
\* queue.
C20_EligibleIdleIsQueued ==
    Quiet =>
        \A u \in DOMAIN proxy_dict :
            /\ ~proxy_dict[u].banned
            /\ UnderCeilings(proxy_dict[u])
            /\ proxy_dict[u].given_out_counter = 0
            =>  u \in Elems(proxy_queue)

====
